---------------------------- MODULE Spec2Model ----------------------------
(***************************************************************************)
(* Progressive filter-relaxation retrieval of kkuwaran/real-estate-matcher *)
(* (src/src/real_estate_conversations.py, src/src/real_estate_database.py).*)
(*                                                                         *)
(* Python floats are IEEE-754 binary64.  They are modelled as records      *)
(* [neg, m, e] with value (-1)^neg * m * 2^e, where m is a natural number  *)
(* of exactly MantBits bits (or zero), kept as a little-endian sequence of *)
(* limbs because a significand does not fit a machine integer.  Every      *)
(* float operation is the exact operation followed by round-to-nearest,    *)
(* ties-to-even, as the hardware does it.                                  *)
(***************************************************************************)
EXTENDS Integers, Sequences, FiniteSets, TLC

(***************************************************************************)
(* Natural numbers of arbitrary size: little-endian limbs, no high zeros.  *)
(***************************************************************************)
LimbBits == 12
BASE == 2 ^ LimbBits

RECURSIVE Norm(_)
Norm(n) == IF n = <<>> THEN <<>>
           ELSE IF n[Len(n)] = 0 THEN Norm(SubSeq(n, 1, Len(n) - 1))
           ELSE n

RECURSIVE FromNat(_)
FromNat(i) == IF i = 0 THEN <<>> ELSE <<i % BASE>> \o FromNat(i \div BASE)

RECURSIVE ToNat(_)
ToNat(n) == IF n = <<>> THEN 0 ELSE Head(n) + BASE * ToNat(Tail(n))

Limb0(n) == IF n = <<>> THEN 0 ELSE Head(n)
Rest(n) == IF n = <<>> THEN <<>> ELSE Tail(n)

RECURSIVE AddC(_, _, _)
AddC(a, b, c) ==
    IF a = <<>> /\ b = <<>> THEN (IF c = 0 THEN <<>> ELSE <<c>>)
    ELSE LET x == Limb0(a) + Limb0(b) + c
         IN  <<x % BASE>> \o AddC(Rest(a), Rest(b), x \div BASE)

BigAdd(a, b) == AddC(a, b, 0)

\* a - b - br for a >= b + br; high zero limbs are left in place
RECURSIVE SubB(_, _, _)
SubB(a, b, br) ==
    IF a = <<>> THEN <<>>
    ELSE LET x == Head(a) - Limb0(b) - br
         IN  IF x < 0 THEN <<x + BASE>> \o SubB(Tail(a), Rest(b), 1)
             ELSE <<x>> \o SubB(Tail(a), Rest(b), 0)

BigSub(a, b) == Norm(SubB(a, b, 0))

\* a * c + carry for a limb-sized c
RECURSIVE MulSmallC(_, _, _)
MulSmallC(a, c, carry) ==
    IF a = <<>> THEN (IF carry = 0 THEN <<>> ELSE <<carry>>)
    ELSE LET x == Head(a) * c + carry
         IN  <<x % BASE>> \o MulSmallC(Tail(a), c, x \div BASE)

MulSmall(a, c) == IF c = 0 THEN <<>> ELSE MulSmallC(a, c, 0)

RECURSIVE BigMul(_, _)
BigMul(a, b) ==
    IF a = <<>> \/ b = <<>> THEN <<>>
    ELSE LET hi == BigMul(Tail(a), b)
         IN  BigAdd(MulSmall(b, Head(a)), IF hi = <<>> THEN <<>> ELSE <<0>> \o hi)

\* -1, 0, 1 as a < b, a = b, a > b
RECURSIVE CmpFrom(_, _, _)
CmpFrom(a, b, i) ==
    IF i = 0 THEN 0
    ELSE IF a[i] < b[i] THEN -1
    ELSE IF a[i] > b[i] THEN 1
    ELSE CmpFrom(a, b, i - 1)

BigCmp(a, b) ==
    IF Len(a) < Len(b) THEN -1
    ELSE IF Len(a) > Len(b) THEN 1
    ELSE CmpFrom(a, b, Len(a))

RECURSIVE BitLenSmall(_)
BitLenSmall(x) == IF x = 0 THEN 0 ELSE 1 + BitLenSmall(x \div 2)

BitLen(n) == IF n = <<>> THEN 0
             ELSE LimbBits * (Len(n) - 1) + BitLenSmall(n[Len(n)])

\* quotient and remainder of n by a limb-sized d, from the top limb down
DivPut(lo, digit) == [q |-> lo.q \o <<digit>>, r |-> lo.r]

RECURSIVE DivFrom(_, _, _, _)
DivStep(n, d, i, x) == DivPut(DivFrom(n, d, i - 1, x % d), x \div d)

DivFrom(n, d, i, r) ==
    IF i = 0 THEN [q |-> <<>>, r |-> r]
    ELSE DivStep(n, d, i, r * BASE + n[i])

NormQ(x) == [q |-> Norm(x.q), r |-> x.r]

DivSmall(n, d) == NormQ(DivFrom(n, d, Len(n), 0))

RECURSIVE ShiftLeft(_, _)
ShiftLeft(n, k) ==
    IF n = <<>> THEN <<>>
    ELSE IF k >= LimbBits THEN <<0>> \o ShiftLeft(n, k - LimbBits)
    ELSE MulSmall(n, 2 ^ k)

WithSticky(x, sticky) == [q |-> x.q, sticky |-> sticky \/ x.r # 0]

\* n div 2^k, and whether any one bit was shifted out
RECURSIVE ShiftRightSticky(_, _, _)
ShiftRightSticky(n, k, sticky) ==
    IF n = <<>> THEN [q |-> <<>>, sticky |-> sticky]
    ELSE IF k >= LimbBits
         THEN ShiftRightSticky(Tail(n), k - LimbBits, sticky \/ Head(n) # 0)
    ELSE WithSticky(DivSmall(n, 2 ^ k), sticky)

IsOdd(n) == Limb0(n) % 2 = 1

\* x.q + x.r / 2 (+ a little, when sticky) rounded to nearest, ties to even
RoundEven(x, sticky) ==
    IF x.r = 1 /\ (sticky \/ IsOdd(x.q)) THEN BigAdd(x.q, <<1>>) ELSE x.q

RoundHalf(s) == RoundEven(DivSmall(s.q, 2), s.sticky)

\* n / 2^k (k >= 1) rounded to nearest, ties to even; sticky says that the
\* exact value lies strictly above n
RoundShift(n, k, sticky) == RoundHalf(ShiftRightSticky(n, k - 1, sticky))

(***************************************************************************)
(* binary64 values                                                         *)
(***************************************************************************)
MantBits == 53

Float(neg, m, e) == [neg |-> neg, m |-> m, e |-> e]

FZero(neg) == Float(neg, <<>>, 0)

\* rounding up may carry into a bit more than the significand holds
Renorm(neg, m, e) ==
    IF BitLen(m) > MantBits THEN Float(neg, DivSmall(m, 2).q, e + 1)
    ELSE Float(neg, m, e)

FRoundL(neg, n, e, sticky, L) ==
    IF L > MantBits
    THEN Renorm(neg, RoundShift(n, L - MantBits, sticky), e + L - MantBits)
    ELSE Float(neg, ShiftLeft(n, MantBits - L), e - (MantBits - L))

\* the double nearest to (-1)^neg * (n + sticky) * 2^e
FRound(neg, n, e, sticky) ==
    IF n = <<>> THEN FZero(neg) ELSE FRoundL(neg, n, e, sticky, BitLen(n))

Abs(i) == IF i < 0 THEN -i ELSE i

\* int -> float (exact below 2^53)
FromInt(i) == FRound(i < 0, FromNat(Abs(i)), 0, FALSE)

\* the double a decimal literal num/den denotes (den a power of ten, limb-sized)
ScaleBits == 64
RoundQuotient(x, e) == FRound(FALSE, x.q, e, x.r # 0)

FromRatio(num, den) ==
    RoundQuotient(DivSmall(ShiftLeft(FromNat(num), ScaleBits), den), -ScaleBits)

FNeg(a) == [a EXCEPT !.neg = ~a.neg]

FMul(a, b) ==
    IF a.m = <<>> \/ b.m = <<>> THEN FZero(a.neg # b.neg)
    ELSE FRound(a.neg # b.neg, BigMul(a.m, b.m), a.e + b.e, FALSE)

\* (-1)^an * x + (-1)^bn * y for naturals x, y with c = BigCmp(x, y)
SumSign(an, bn, c) == IF an = bn THEN an ELSE IF c = 0 THEN FALSE ELSE IF c > 0 THEN an ELSE bn

SumMag(an, bn, x, y, c) ==
    IF an = bn THEN BigAdd(x, y)
    ELSE IF c >= 0 THEN BigSub(x, y)
    ELSE BigSub(y, x)

FAddMag(an, bn, x, y, e, c) ==
    FRound(SumSign(an, bn, c), SumMag(an, bn, x, y, c), e, FALSE)

FAddAligned(an, bn, x, y, e) == FAddMag(an, bn, x, y, e, BigCmp(x, y))

FAddAt(a, b, e) ==
    FAddAligned(a.neg, b.neg, ShiftLeft(a.m, a.e - e), ShiftLeft(b.m, b.e - e), e)

FAdd(a, b) ==
    IF a.m = <<>> THEN (IF b.m = <<>> THEN FZero(a.neg /\ b.neg) ELSE b)
    ELSE IF b.m = <<>> THEN a
    ELSE FAddAt(a, b, IF a.e < b.e THEN a.e ELSE b.e)

FSub(a, b) == FAdd(a, FNeg(b))

SignOf(d) == IF d.m = <<>> THEN 0 ELSE IF d.neg THEN -1 ELSE 1

\* -1, 0, 1 as a < b, a = b, a > b (zeros of either sign are equal)
FCmp(a, b) == SignOf(FSub(a, b))

FLeq(a, b) == FCmp(a, b) <= 0

Signed(neg, mag) == IF neg THEN -mag ELSE mag

\* int(x): truncation toward zero
FTrunc(a) ==
    Signed(a.neg, IF a.m = <<>> THEN 0
                  ELSE IF a.e >= 0 THEN ToNat(ShiftLeft(a.m, a.e))
                  ELSE ToNat(ShiftRightSticky(a.m, -a.e, FALSE).q))

(***************************************************************************)
(* Optional[T] values: None is the empty tuple, a present value v is <<v>>.*)
(***************************************************************************)
None == <<>>
Some(v) == <<v>>
IsNone(x) == x = None
Val(x) == x[1]

\* the years the wall clock shows while the process runs
Years == {2026, 2027}
\* relaxation levels the Query Builder is exercised at
MaxLevel == 8
\* caller-chosen arguments of one retrieval
MaxRelax == 2
MaxResults == 2

VARIABLES
    clock,          \* datetime.now().year
    conv_id,        \* argument conv_id
    llm_calls,      \* history: the reply to each chat.completions.parse call
    buyer_prefs,    \* BuyerPreferences of the run, None when extraction failed
    n_results,      \* argument n_results
    max_relaxation_level,   \* argument max_relaxation_level
    pc,             \* position in query_with_progressive_relaxation
    level,          \* loop variable of the relaxation loop
    query_text,     \* local query_text
    ids,            \* local ids
    calls,          \* history: one record per database.query call
    returned,       \* the value returned to the caller (when pc = "done")
    error,          \* the exception that left the method (when pc = "raised")
    cur,            \* history: latest build_filter_conditions invocation
    prev            \* history: the invocation before it

vars == <<clock, conv_id, llm_calls, buyer_prefs, n_results, max_relaxation_level, pc, level,
          query_text, ids, calls, returned, error, cur, prev>>

(***************************************************************************)
(* RELAXATION_CONFIG                                                       *)
(***************************************************************************)
bathrooms_tolerance == FromRatio(5, 10)
budget_pct == FromRatio(15, 100)
area_sqft_delta == 200
max_building_relax_level == 2

\* mutant: the clamp is lost, the second argument is taken as it is
MaxUnclamped(a, b) == b

Max(a, b) == IF a >= b THEN a ELSE b

Least(S) == CHOOSE x \in S : \A y \in S : x <= y

(***************************************************************************)
(* build_filter_conditions.  A condition {"f": v} is [field, op "$eq",     *)
(* value]; {"f": {"$gte": v}} is [field, op "$gte", value].  Values are    *)
(* ints, except for the bathrooms conditions, whose values are floats.     *)
(***************************************************************************)
Cond(f, o, v) == [field |-> f, op |-> o, value |-> v]

\* mutant: "if prefs.bedrooms:", the truthiness test of the older
\* _get_conditions, which drops bedrooms = 0
bedrooms_conditions_truthy(prefs) ==
    IF ~IsNone(prefs.bedrooms) /\ Val(prefs.bedrooms) # 0
    THEN <<Cond("bedrooms", "$eq", Val(prefs.bedrooms))>>
    ELSE <<>>

bedrooms_conditions(prefs) ==
    IF ~IsNone(prefs.bedrooms)
    THEN <<Cond("bedrooms", "$eq", Val(prefs.bedrooms))>>
    ELSE <<>>

\* mutant: the fixed +/- 1 of the older _get_conditions
bathrooms_tol_fixed(relaxation_level) == FromInt(1)

\* tol = cfg["bathrooms_tolerance"] + relaxation_level
bathrooms_tol(relaxation_level) ==
    FAdd(bathrooms_tolerance, FromInt(relaxation_level))

bathrooms_range(bathrooms, tol) ==
    <<Cond("bathrooms", "$gte", FSub(bathrooms, tol)),
      Cond("bathrooms", "$lte", FAdd(bathrooms, tol))>>

bathrooms_conditions(prefs, relaxation_level) ==
    IF ~IsNone(prefs.bathrooms)
    THEN bathrooms_range(Val(prefs.bathrooms), bathrooms_tol(relaxation_level))
    ELSE <<>>

\* mutant: the lower bound scaled by (1 + budget_pct * level)
relaxed_min_budget_raised(min_budget, relaxation_level) ==
    FTrunc(FMul(FromInt(min_budget),
                FAdd(FromInt(1), FMul(budget_pct, FromInt(relaxation_level)))))

relaxed_min_budget(min_budget, relaxation_level) ==
    FTrunc(FMul(FromInt(min_budget),
                FSub(FromInt(1), FMul(budget_pct, FromInt(relaxation_level)))))

relaxed_max_budget(max_budget, relaxation_level) ==
    FTrunc(FMul(FromInt(max_budget),
                FAdd(FromInt(1), FMul(budget_pct, FromInt(relaxation_level)))))

budget_conditions(prefs, relaxation_level) ==
    (IF ~IsNone(prefs.min_budget)
     THEN <<Cond("price", "$gte",
                 relaxed_min_budget(Val(prefs.min_budget), relaxation_level))>>
     ELSE <<>>)
    \o
    (IF ~IsNone(prefs.max_budget)
     THEN <<Cond("price", "$lte",
                 relaxed_max_budget(Val(prefs.max_budget), relaxation_level))>>
     ELSE <<>>)

\* mutant: the lower bound emitted with a default of 0 when area_min_sqft
\* is absent
area_conditions_defaulted(prefs, relaxation_level) ==
    <<Cond("area_sqft", "$gte",
           Max(0, (IF IsNone(prefs.area_min_sqft) THEN 0 ELSE Val(prefs.area_min_sqft))
                  - area_sqft_delta * relaxation_level))>>
    \o
    (IF ~IsNone(prefs.area_max_sqft)
     THEN <<Cond("area_sqft", "$lte",
                 Val(prefs.area_max_sqft) + area_sqft_delta * relaxation_level)>>
     ELSE <<>>)

area_conditions(prefs, relaxation_level) ==
    (IF ~IsNone(prefs.area_min_sqft)
     THEN <<Cond("area_sqft", "$gte",
                 Max(0, Val(prefs.area_min_sqft) - area_sqft_delta * relaxation_level))>>
     ELSE <<>>)
    \o
    (IF ~IsNone(prefs.area_max_sqft)
     THEN <<Cond("area_sqft", "$lte",
                 Val(prefs.area_max_sqft) + area_sqft_delta * relaxation_level)>>
     ELSE <<>>)

\* mutant: relaxation_level <= max_building_relax_level
building_enforced_inclusive(relaxation_level) ==
    relaxation_level <= max_building_relax_level

building_enforced(relaxation_level) ==
    relaxation_level < max_building_relax_level

building_conditions(prefs, relaxation_level, current_year) ==
    (IF ~IsNone(prefs.building_min_year) /\ building_enforced(relaxation_level)
     THEN <<Cond("year_built", "$gte", Val(prefs.building_min_year))>>
     ELSE <<>>)
    \o
    (IF ~IsNone(prefs.building_max_age) /\ building_enforced(relaxation_level)
     THEN <<Cond("year_built", "$gte", current_year - Val(prefs.building_max_age))>>
     ELSE <<>>)

\* lines 224-252: the conditions, in the order the method appends them
conditions_in_year(prefs, relaxation_level, current_year) ==
    bedrooms_conditions(prefs)
    \o bathrooms_conditions(prefs, relaxation_level)
    \o budget_conditions(prefs, relaxation_level)
    \o area_conditions(prefs, relaxation_level)
    \o building_conditions(prefs, relaxation_level, current_year)

\* current_year = datetime.now().year: the method reads the wall clock
build_filter_conditions(prefs, relaxation_level) ==
    conditions_in_year(prefs, relaxation_level, clock)

(***************************************************************************)
(* build_query_text: the eight lines of QUERY_TEXT_TEMPLATE, in order.     *)
(***************************************************************************)
yes_no(value) == IF value THEN "Yes" ELSE "No"

RECURSIVE Join(_)
Join(values) == IF Len(values) = 1 THEN values[1]
                ELSE values[1] \o ", " \o Join(Tail(values))

join_or_any(values) == IF values # <<>> THEN Join(values) ELSE "Any"

\* mutant: the value goes to str.format as it is, None renders as "None"
or_any_unsubstituted(x) == IF IsNone(x) THEN "None" ELSE Val(x)

\* x or "Any" for an Optional[str]: None and the empty string are falsy
or_any(x) == IF IsNone(x) \/ x = Some("") THEN "Any" ELSE Val(x)

build_query_text(prefs) ==
    << "- Property type: " \o or_any(prefs.property_type),
       "- Amenities: " \o join_or_any(prefs.amenities),
       "- Furnished: " \o yes_no(prefs.furnished),
       "- Location: " \o or_any(prefs.location),
       "- Neighborhood features: " \o join_or_any(prefs.neighborhood_features),
       "- Transportation preferences: " \o join_or_any(prefs.transportation),
       "- Parking required: " \o yes_no(prefs.parking_required),
       "- Pet friendly required: " \o yes_no(prefs.pet_friendly_required) >>

(***************************************************************************)
(* BuyerPreferences values                                                 *)
(***************************************************************************)
NoPrefs ==
    [bedrooms |-> None, bathrooms |-> None, property_type |-> None,
     area_min_sqft |-> None, area_max_sqft |-> None,
     building_max_age |-> None, building_min_year |-> None,
     amenities |-> <<>>, furnished |-> FALSE, location |-> None,
     neighborhood_features |-> <<>>, transportation |-> <<>>,
     parking_required |-> FALSE, pet_friendly_required |-> FALSE,
     min_budget |-> None, max_budget |-> None]

\* BuyerPreferences places no bound on a number: a record with negative
\* budgets validates
NegativePrefs ==
    [NoPrefs EXCEPT !.min_budget = Some(-100), !.max_budget = Some(-50)]

\* the records the Query Builder is exercised on: every combination of
\* present and absent structured fields
FilterPrefs ==
    { [NoPrefs EXCEPT !.bedrooms = b, !.bathrooms = ba, !.min_budget = lo,
                      !.max_budget = hi, !.area_min_sqft = amin,
                      !.area_max_sqft = amax, !.building_min_year = y,
                      !.building_max_age = age] :
        b \in {None, Some(0), Some(2)},
        ba \in {None, Some(FromRatio(15, 10)), Some(FromInt(2))},
        lo \in {None, Some(300000)},
        hi \in {None, Some(340000)},
        amin \in {None, Some(500)},
        amax \in {None, Some(850)},
        y \in {None, Some(2015)},
        age \in {None, Some(10)} }
    \cup
    {NegativePrefs}

\* the records one retrieval is run on
ScenarioPrefs ==
    [NoPrefs EXCEPT !.bedrooms = Some(2), !.min_budget = Some(300000),
                    !.max_budget = Some(340000)]

FullPrefs ==
    [NoPrefs EXCEPT !.bedrooms = Some(0), !.bathrooms = Some(FromRatio(15, 10)),
                    !.property_type = Some("condo"),
                    !.area_min_sqft = Some(500), !.area_max_sqft = Some(850),
                    !.building_max_age = Some(10), !.building_min_year = Some(2015),
                    !.amenities = <<"pool", "gym">>, !.furnished = TRUE,
                    !.location = Some("Austin"),
                    !.min_budget = Some(300000), !.max_budget = Some(340000)]

(***************************************************************************)
(* extract_preferences: the conversation is looked up, the LLM is asked,   *)
(* the content of its reply is parsed as JSON and validated as             *)
(* BuyerPreferences.  JSON values are tagged records; an object carries    *)
(* its members as a function from names to JSON values.                    *)
(***************************************************************************)
JNull == [t |-> "null"]
JInt(n) == [t |-> "int", v |-> n]
JFloat(f) == [t |-> "float", v |-> f]
JStr(str) == [t |-> "str", v |-> str]
JBool(b) == [t |-> "bool", v |-> b]
JList(items) == [t |-> "list", v |-> items]
JObject(members) == [t |-> "object", v |-> members]

\* a string that is not JSON
NotJson == [t |-> "text"]

\* what chat.completions.parse can answer: it raises, or gives a message
\* whose content is null or a string
ApiError == [raised |-> TRUE, content |-> None]
Reply(content) == [raised |-> FALSE, content |-> content]

LLMReplies ==
    { ApiError,
      Reply(None),
      Reply(Some(NotJson)),
      Reply(Some(JList(<<>>))),
      Reply(Some(JObject([bedrooms |-> JStr("two")]))),
      Reply(Some(JObject(<<>>))),
      Reply(Some(JObject([bedrooms |-> JInt(2), min_budget |-> JInt(300000),
                          max_budget |-> JInt(340000)]))),
      Reply(Some(JObject([bedrooms |-> JInt(0), bathrooms |-> JFloat(FromRatio(15, 10)),
                          property_type |-> JStr("condo"),
                          area_min_sqft |-> JInt(500), area_max_sqft |-> JInt(850),
                          building_max_age |-> JInt(10), building_min_year |-> JInt(2015),
                          amenities |-> JList(<<"pool", "gym">>), furnished |-> JBool(TRUE),
                          location |-> JStr("Austin"),
                          min_budget |-> JInt(300000), max_budget |-> JInt(340000)]))),
      Reply(Some(JObject([min_budget |-> JInt(-100), max_budget |-> JInt(-50)]))) }

\* the conversations loaded by _load_conversations, and the ids a caller passes
conv_ids == {1, 2}
ConvIdArguments == {1, 3}

\* pydantic field validation: a member that is missing takes the default
Has(obj, name) == name \in DOMAIN obj.v
TagOf(obj, name) == IF Has(obj, name) THEN obj.v[name].t ELSE "missing"

valid_optional_int(obj, name) == TagOf(obj, name) \in {"missing", "null", "int"}
valid_optional_float(obj, name) == TagOf(obj, name) \in {"missing", "null", "int", "float"}
valid_optional_str(obj, name) == TagOf(obj, name) \in {"missing", "null", "str"}
valid_str_list(obj, name) == TagOf(obj, name) \in {"missing", "list"}
valid_bool(obj, name) == TagOf(obj, name) \in {"missing", "bool"}

optional_field(obj, name) ==
    IF TagOf(obj, name) \in {"missing", "null"} THEN None ELSE Some(obj.v[name].v)

optional_float(obj, name) ==
    IF TagOf(obj, name) = "int" THEN Some(FromInt(obj.v[name].v))
    ELSE optional_field(obj, name)

defaulted_field(obj, name, default) ==
    IF Has(obj, name) THEN obj.v[name].v ELSE default

\* BuyerPreferences(**content_dict) raising ValidationError: only the type
\* of a member is looked at
validation_error(obj) ==
    ~ /\ valid_optional_int(obj, "bedrooms")
      /\ valid_optional_float(obj, "bathrooms")
      /\ valid_optional_str(obj, "property_type")
      /\ valid_optional_int(obj, "area_min_sqft")
      /\ valid_optional_int(obj, "area_max_sqft")
      /\ valid_optional_int(obj, "building_max_age")
      /\ valid_optional_int(obj, "building_min_year")
      /\ valid_str_list(obj, "amenities")
      /\ valid_bool(obj, "furnished")
      /\ valid_optional_str(obj, "location")
      /\ valid_str_list(obj, "neighborhood_features")
      /\ valid_str_list(obj, "transportation")
      /\ valid_bool(obj, "parking_required")
      /\ valid_bool(obj, "pet_friendly_required")
      /\ valid_optional_int(obj, "min_budget")
      /\ valid_optional_int(obj, "max_budget")

\* BuyerPreferences(**content_dict) for a dict that validates
BuyerPreferences(obj) ==
    [bedrooms |-> optional_field(obj, "bedrooms"),
     bathrooms |-> optional_float(obj, "bathrooms"),
     property_type |-> optional_field(obj, "property_type"),
     area_min_sqft |-> optional_field(obj, "area_min_sqft"),
     area_max_sqft |-> optional_field(obj, "area_max_sqft"),
     building_max_age |-> optional_field(obj, "building_max_age"),
     building_min_year |-> optional_field(obj, "building_min_year"),
     amenities |-> defaulted_field(obj, "amenities", <<>>),
     furnished |-> defaulted_field(obj, "furnished", FALSE),
     location |-> optional_field(obj, "location"),
     neighborhood_features |-> defaulted_field(obj, "neighborhood_features", <<>>),
     transportation |-> defaulted_field(obj, "transportation", <<>>),
     parking_required |-> defaulted_field(obj, "parking_required", FALSE),
     pet_friendly_required |-> defaulted_field(obj, "pet_friendly_required", FALSE),
     min_budget |-> optional_field(obj, "min_budget"),
     max_budget |-> optional_field(obj, "max_budget")]

\* how a call ends: an exception leaves it, or it returns a value
Raise(exception) == [raised |-> exception, value |-> None]
Return(value) == [raised |-> "", value |-> value]

\* lines 180-191: json.loads and the constructor under try/except
\* (json.JSONDecodeError, ValidationError); json.loads(None) and ** of a
\* value that is no mapping raise TypeError, which is not caught
parse_content(content) ==
    IF IsNone(content) THEN Raise("TypeError")
    ELSE IF Val(content).t = "text" THEN Return(None)
    ELSE IF Val(content).t # "object" THEN Raise("TypeError")
    ELSE IF validation_error(Val(content)) THEN Return(None)
    ELSE Return(Some(BuyerPreferences(Val(content))))

\* lines 169-178: the LLM call is under no try
llm_outcome(reply) ==
    IF reply.raised THEN Raise("APIError") ELSE parse_content(reply.content)

\* mutant: the membership test of get_conversation_text is lost, the
\* conversation is looked up with a default
invalid_conversation_id_unchecked(id) == FALSE

\* get_conversation_text line 140: if conv_id not in self.conv_ids
invalid_conversation_id(id) == id \notin conv_ids

extract_preferences(id, reply) ==
    IF invalid_conversation_id(id) THEN Raise("ValueError") ELSE llm_outcome(reply)

(***************************************************************************)
(* The search backend (chromadb) is an external collaborator: a query      *)
(* returns any ranked sequence of distinct listing ids, or fails.          *)
(***************************************************************************)
ListingIds == {"1", "2"}

Responses ==
    {<<>>} \cup {<<a>> : a \in ListingIds}
           \cup {<<a, b>> : <<a, b>> \in {x \in ListingIds \X ListingIds : x[1] # x[2]}}

\* Database.extract_ids_from_query_outputs: the ranked ids of the one query text
extract_ids_from_query_outputs(query_outputs) == query_outputs.ids[1]

\* Database.query: what chromadb answered, as {"ids": [[...]], ...}
QueryOutputs(resp) == [ids |-> <<resp>>]

(***************************************************************************)
(* query_with_progressive_relaxation                                       *)
(***************************************************************************)
\* mutant: range(max_relaxation_level), the last level is never visited
loop_levels_short(max_level) == 0 .. max_level - 1

\* mutant: range(1, max_relaxation_level + 2), the loop starts relaxed
loop_levels_from_one(max_level) == 1 .. max_level + 1

\* for level in range(max_relaxation_level + 1)
loop_levels(max_level) == 0 .. max_level

\* the levels the loop has still to visit after level l
LevelsAfter(l) == {x \in loop_levels(max_relaxation_level) : x > l}

\* mutant: if len(ids) > n_results
enough_results_strict(found, wanted) == Len(found) > wanted

\* if len(ids) >= n_results: break
enough_results(found, wanted) == Len(found) >= wanted

\* mutant: the None check is lost
extraction_never_failed(extracted) == FALSE

\* if buyer_prefs is None
extraction_failed(extracted) == IsNone(extracted)

\* mutant: the query text is rebuilt inside the loop and names the level
semantic_query_per_level(text, relaxation_level) ==
    IF relaxation_level = 0 THEN text ELSE Append(text, "- Relaxed: Yes")

\* database.query(query_text, ...): the text built before the loop is passed as it is
semantic_query(text, relaxation_level) == text

\* one build_filter_conditions invocation, as the history records it
Invocation(prefs, relaxation_level) ==
    [prefs |-> prefs, level |-> relaxation_level, year |-> clock,
     conditions |-> build_filter_conditions(prefs, relaxation_level)]

Idle ==
    /\ conv_id = 1
    /\ llm_calls = <<>>
    /\ n_results = 0
    /\ max_relaxation_level = 0
    /\ query_text = <<>>
    /\ ids = <<>>
    /\ calls = <<>>
    /\ returned = <<>>
    /\ error = ""

Init ==
    /\ clock = Least(Years)
    /\ conv_id \in ConvIdArguments
    /\ llm_calls = <<>>
    /\ buyer_prefs = None
    /\ n_results \in 0 .. MaxResults
    /\ max_relaxation_level \in -1 .. MaxRelax
    /\ pc = "start"
    /\ level = 0
    /\ query_text = <<>>
    /\ ids = <<>>
    /\ calls = <<>>
    /\ returned = <<>>
    /\ error = ""
    /\ cur = None
    /\ prev = None

\* lines 323-332: extract the preferences, short-circuit on None, build the
\* query text; outcome is how extract_preferences ended
Extract(outcome) ==
    /\ pc = "start"
    /\ buyer_prefs' = outcome.value
    /\ IF outcome.raised # ""
       THEN /\ error' = outcome.raised
            /\ pc' = "raised"
            /\ UNCHANGED <<query_text, returned>>
       ELSE IF extraction_failed(outcome.value)
       THEN /\ returned' = <<>>
            /\ pc' = "done"
            /\ UNCHANGED <<query_text, error>>
       ELSE IF IsNone(outcome.value)
       THEN \* None has no model_dump
            /\ error' = "AttributeError"
            /\ pc' = "raised"
            /\ UNCHANGED <<query_text, returned>>
       ELSE /\ query_text' = build_query_text(Val(outcome.value))
            /\ pc' = IF loop_levels(max_relaxation_level) # {} THEN "loop" ELSE "display"
            /\ UNCHANGED <<returned, error>>
    /\ level' = IF pc' = "loop" THEN Least(loop_levels(max_relaxation_level)) ELSE level
    /\ UNCHANGED <<clock, conv_id, n_results, max_relaxation_level, ids, calls, cur, prev>>

\* line 324: the LLM is asked only for a conversation that exists
ExtractPreferences ==
    \E reply \in LLMReplies :
        /\ Extract(extract_preferences(conv_id, reply))
        /\ llm_calls' = IF invalid_conversation_id(conv_id) THEN llm_calls
                        ELSE Append(llm_calls, reply)

\* lines 335-345: one iteration of the relaxation loop, the backend answering resp
Iterate(resp) ==
    /\ pc = "loop"
    /\ prev' = cur
    /\ cur' = Some(Invocation(Val(buyer_prefs), level))
    /\ calls' = Append(calls, [level |-> level, year |-> clock,
                               query_text |-> semantic_query(query_text, level),
                               conditions |-> Val(cur').conditions,
                               n_results |-> n_results,
                               failed |-> FALSE, returned |-> resp])
    /\ ids' = extract_ids_from_query_outputs(QueryOutputs(resp))
    /\ IF enough_results(ids', n_results) \/ LevelsAfter(level) = {}
       THEN pc' = "display" /\ level' = level
       ELSE pc' = "loop" /\ level' = Least(LevelsAfter(level))
    /\ UNCHANGED <<conv_id, llm_calls,
                   clock, buyer_prefs, n_results, max_relaxation_level, query_text,
                   returned, error>>

RelaxationStep == \E resp \in Responses : Iterate(resp)

\* mutant: the call is wrapped in try/except and the loop goes on
backend_failure_swallowed == FALSE

\* lines 339-340 are under no try: an exception of database.query leaves
\* the loop and the method
backend_failure_propagates == TRUE

\* line 340 raising (chromadb unavailable): Database.query catches nothing
BackendFails ==
    /\ pc = "loop"
    /\ prev' = cur
    /\ cur' = Some(Invocation(Val(buyer_prefs), level))
    /\ calls' = Append(calls, [level |-> level, year |-> clock,
                               query_text |-> semantic_query(query_text, level),
                               conditions |-> Val(cur').conditions,
                               n_results |-> n_results,
                               failed |-> TRUE, returned |-> <<>>])
    /\ IF backend_failure_propagates
       THEN /\ error' = "BackendUnavailable"
            /\ pc' = "raised"
            /\ level' = level
       ELSE /\ error' = error
            /\ pc' = IF LevelsAfter(level) = {} THEN "display" ELSE "loop"
            /\ level' = IF LevelsAfter(level) = {} THEN level ELSE Least(LevelsAfter(level))
    /\ UNCHANGED <<conv_id, llm_calls,
                   clock, buyer_prefs, n_results, max_relaxation_level,
                   query_text, ids, returned>>

\* lines 347-350: display the results and return ids
Finish ==
    /\ pc = "display"
    /\ returned' = ids
    /\ pc' = "done"
    /\ UNCHANGED <<conv_id, llm_calls,
                   clock, buyer_prefs, n_results, max_relaxation_level, level,
                   query_text, ids, calls, error, cur, prev>>

\* the wall clock passes New Year while the process runs
Tick ==
    /\ pc \notin {"done", "raised"}
    /\ clock + 1 \in Years
    /\ clock' = clock + 1
    /\ UNCHANGED <<conv_id, llm_calls,
                   buyer_prefs, n_results, max_relaxation_level, pc, level,
                   query_text, ids, calls, returned, error, cur, prev>>

Next ==
    \/ ExtractPreferences
    \/ RelaxationStep
    \/ BackendFails
    \/ Finish
    \/ Tick

Spec == Init /\ [][Next]_vars

(***************************************************************************)
(* The Query Builder on its own: build_filter_conditions invoked on a      *)
(* record at level 0, 1, 2, ..., any level any number of times.            *)
(***************************************************************************)
BuilderInit ==
    /\ clock = Least(Years)
    /\ buyer_prefs \in {Some(p) : p \in FilterPrefs}
    /\ pc = "builder"
    /\ level = 0
    /\ cur = None
    /\ prev = None
    /\ Idle

BuildConditions ==
    /\ pc = "builder"
    /\ prev' = cur
    /\ cur' = Some(Invocation(Val(buyer_prefs), level))
    /\ UNCHANGED <<conv_id, llm_calls,
                   clock, buyer_prefs, n_results, max_relaxation_level, pc, level,
                   query_text, ids, calls, returned, error>>

Relax ==
    /\ pc = "builder"
    /\ cur # None
    /\ Val(cur).level = level
    /\ level < MaxLevel
    /\ level' = level + 1
    /\ UNCHANGED <<conv_id, llm_calls,
                   clock, buyer_prefs, n_results, max_relaxation_level, pc,
                   query_text, ids, calls, returned, error, cur, prev>>

BuilderNext ==
    \/ BuildConditions
    \/ Relax
    \/ Tick

BuilderSpec == BuilderInit /\ [][BuilderNext]_vars
(***************************************************************************)
(* build_query_text on its own: the method applied to a record, over every *)
(* combination of the fields it renders.                                   *)
(***************************************************************************)
TextPrefs ==
    { [NoPrefs EXCEPT !.property_type = pt, !.amenities = am, !.furnished = fu,
                      !.location = lo, !.neighborhood_features = nf,
                      !.transportation = tr, !.parking_required = pa,
                      !.pet_friendly_required = pe] :
        pt \in {None, Some(""), Some("condo")},
        am \in {<<>>, <<"pool">>, <<"pool", "gym">>},
        fu \in BOOLEAN,
        lo \in {None, Some("Austin")},
        nf \in {<<>>, <<"quiet">>},
        tr \in {<<>>, <<"near subway">>},
        pa \in BOOLEAN,
        pe \in BOOLEAN }

TextInit ==
    /\ clock = Least(Years)
    /\ buyer_prefs \in {Some(p) : p \in TextPrefs}
    /\ pc = "text"
    /\ level = 0
    /\ cur = None
    /\ prev = None
    /\ Idle

BuildQueryText ==
    /\ pc = "text"
    /\ query_text' = build_query_text(Val(buyer_prefs))
    /\ pc' = "rendered"
    /\ UNCHANGED <<clock, conv_id, llm_calls, buyer_prefs, n_results,
                   max_relaxation_level, level, ids, calls, returned, error,
                   cur, prev>>

TextNext == BuildQueryText

TextSpec == TextInit /\ [][TextNext]_vars

(***************************************************************************)
(* Properties of the Relaxation Controller (under Spec)                    *)
(***************************************************************************)
Sufficient(call) == ~call.failed /\ Len(call.returned) >= n_results

NeverSufficient == \A k \in 1 .. Len(calls) : ~Sufficient(calls[k])

\* C1: once a backend call returns at least n_results ids, it is the last
\* call of the run (no call is made at a higher level), the run does not go
\* on relaxing or raise, and what it returns is the id sequence of that call.
C1_FirstSufficientLevelWins ==
    \A k \in 1 .. Len(calls) :
        Sufficient(calls[k]) =>
            /\ k = Len(calls)
            /\ \A j \in 1 .. Len(calls) : calls[j].level <= calls[k].level
            /\ pc \in {"display", "done"}
            /\ ids = calls[k].returned
            /\ pc = "done" => returned = calls[k].returned

\* C1 witness: a run that stopped below the last level it was allowed, after
\* an insufficient level, and returned the ids of the level that sufficed
C1_Witness ==
    /\ pc = "done"
    /\ Len(calls) >= 2
    /\ Len(calls) <= max_relaxation_level
    /\ Sufficient(calls[Len(calls)])
    /\ returned = calls[Len(calls)].returned
    /\ returned # <<>>

\* C2: when every level 0..max_relaxation_level came back with fewer than
\* n_results ids, the run returns the id sequence of the call at level
\* max_relaxation_level, as the backend gave it.
C2_ExhaustedReturnsLastLevel ==
    (pc = "done" /\ ~IsNone(buyer_prefs) /\ max_relaxation_level >= 0 /\ NeverSufficient) =>
        /\ Len(calls) = max_relaxation_level + 1
        /\ calls[Len(calls)].level = max_relaxation_level
        /\ returned = calls[Len(calls)].returned

\* C2 witness: an exhausted run over several levels whose result is the last
\* level's, and differs from what an earlier level gave
C2_Witness ==
    /\ pc = "done"
    /\ NeverSufficient
    /\ Len(calls) = max_relaxation_level + 1
    /\ Len(calls) >= 2
    /\ returned = calls[Len(calls)].returned
    /\ returned # <<>>
    /\ returned # calls[1].returned

\* extract_preferences came back, with None
ExtractionGaveNone ==
    /\ pc # "start"
    /\ llm_calls # <<>>
    /\ extract_preferences(conv_id, llm_calls[1]) = Return(None)

\* C3: when extract_preferences gives None the run returns the empty list,
\* raises nothing, makes no backend call and builds neither the query text
\* nor any filter conditions.
C3_ExtractionFailureShortCircuits ==
    ExtractionGaveNone =>
        /\ pc = "done"
        /\ returned = <<>>
        /\ error = ""
        /\ calls = <<>>
        /\ query_text = <<>>
        /\ cur = None

\* C3 witness: a run whose extraction failed and that has returned
C3_Witness ==
    /\ pc = "done"
    /\ IsNone(buyer_prefs)
    /\ max_relaxation_level >= 1
    /\ n_results >= 1
    /\ returned = <<>>

\* C4: the k-th backend call of a run carries the conditions built for
\* level k - 1 (levels 0, 1, 2, ... each once), no level exceeds
\* max_relaxation_level, the run makes at most max_relaxation_level + 1
\* calls, and it leaves the loop after the last level or a sufficient one:
\* while it is in the loop the next level is the number of calls made, which
\* is at most max_relaxation_level, so the loop ends.
C4_LevelsInOrder ==
    /\ \A k \in 1 .. Len(calls) :
          /\ calls[k].level = k - 1
          /\ calls[k].level <= max_relaxation_level
          /\ calls[k].conditions =
                conditions_in_year(Val(buyer_prefs), k - 1, calls[k].year)
    /\ Len(calls) <= max_relaxation_level + 1
    /\ pc = "loop" => level = Len(calls) /\ level <= max_relaxation_level
    /\ pc \in {"display", "done"} /\ ~IsNone(buyer_prefs) =>
          \/ Len(calls) = max_relaxation_level + 1
          \/ Len(calls) > 0 /\ Sufficient(calls[Len(calls)])

\* C4 witness: a finished run that made max_relaxation_level + 1 calls, at
\* least three, with conditions that differ from level to level
C4_Witness ==
    /\ pc = "done"
    /\ Len(calls) = max_relaxation_level + 1
    /\ Len(calls) >= 3
    /\ calls[1].conditions # calls[2].conditions
    /\ calls[2].conditions # calls[3].conditions

\* C11: every backend call of a run carries the same query text, the one
\* build_query_text gave for the record before the loop; it is bound once,
\* when the loop is entered, and the level leaves it alone.
C11_OneQueryTextForAllLevels ==
    /\ \A k \in 1 .. Len(calls) :
          /\ calls[k].query_text = calls[1].query_text
          /\ calls[k].query_text = build_query_text(Val(buyer_prefs))
    /\ pc \in {"loop", "display"} => query_text = build_query_text(Val(buyer_prefs))

\* C11 witness: three calls of one run whose conditions differ and whose
\* query text is the same
C11_Witness ==
    /\ Len(calls) >= 3
    /\ calls[1].conditions # calls[2].conditions
    /\ calls[2].conditions # calls[3].conditions
    /\ calls[1].query_text = calls[3].query_text
    /\ calls[1].query_text # build_query_text(NoPrefs)

\* C12: a backend call that fails is the last call of the run (no second
\* call at its level, none at a later one); the run ends raising
\* BackendUnavailable, no handler in between, and it returns nothing.
C12_BackendFailurePropagates ==
    \A k \in 1 .. Len(calls) :
        calls[k].failed =>
            /\ k = Len(calls)
            /\ \A j \in 1 .. Len(calls) : j # k => calls[j].level < calls[k].level
            /\ pc = "raised"
            /\ error = "BackendUnavailable"
            /\ returned = <<>>

\* C12 witness: the backend failed at level 1, after an insufficient but
\* non-empty level 0 and with a level still to go
C12_Witness ==
    /\ Len(calls) = 2
    /\ calls[2].failed
    /\ calls[2].level = 1
    /\ max_relaxation_level >= 2
    /\ ids # <<>>
    /\ pc = "raised"

\* section 3 of the specification: every numeric optional of a
\* PreferenceRecord is absent or non-negative
NonNegInt(x) == IsNone(x) \/ Val(x) >= 0
NonNegFloat(x) == IsNone(x) \/ ~Val(x).neg

IsPreferenceRecord(prefs) ==
    /\ NonNegInt(prefs.bedrooms)
    /\ NonNegFloat(prefs.bathrooms)
    /\ NonNegInt(prefs.area_min_sqft)
    /\ NonNegInt(prefs.area_max_sqft)
    /\ NonNegInt(prefs.building_max_age)
    /\ NonNegInt(prefs.building_min_year)
    /\ NonNegInt(prefs.min_budget)
    /\ NonNegInt(prefs.max_budget)

\* the reply holds no valid record: the call raised, the content is null,
\* is not JSON, is JSON but no object, or is an object that breaks the schema
NoValidRecord(reply) ==
    \/ reply.raised
    \/ IsNone(reply.content)
    \/ Val(reply.content).t # "object"
    \/ validation_error(Val(reply.content))

\* C13 (as claimed): whichever way the LLM reply fails to hold a valid
\* record, the run returns the empty list: nothing is raised and no backend
\* call is made.
C13_EveryExtractionFailureReturnsEmpty ==
    (pc # "start" /\ llm_calls # <<>> /\ NoValidRecord(llm_calls[1])) =>
        /\ pc = "done"
        /\ error = ""
        /\ returned = <<>>
        /\ calls = <<>>

\* C14 (as claimed): the record the run hands to build_filter_conditions
\* has every numeric field absent or non-negative.
C14_ExtractedNumbersNonNegative ==
    /\ ~IsNone(buyer_prefs) => IsPreferenceRecord(Val(buyer_prefs))
    /\ ~IsNone(cur) => IsPreferenceRecord(Val(cur).prefs)

\* C16: a run on a conversation id that is not loaded ends raising
\* ValueError at once: the LLM was never asked, the backend never called,
\* no conditions were built, nothing was returned.
C16_InvalidConversationIdFailsFast ==
    (pc # "start" /\ conv_id \notin conv_ids) =>
        /\ pc = "raised"
        /\ error = "ValueError"
        /\ llm_calls = <<>>
        /\ calls = <<>>
        /\ cur = None
        /\ query_text = <<>>
        /\ returned = <<>>

\* C16 witness: a run that was allowed several levels and results, on an
\* id that is not loaded, has raised
C16_Witness ==
    /\ conv_id \notin conv_ids
    /\ pc = "raised"
    /\ error = "ValueError"
    /\ max_relaxation_level >= 2
    /\ n_results >= 1

(***************************************************************************)
(* Properties of build_query_text (under TextSpec)                         *)
(***************************************************************************)
\* what a list of the model's inputs looks like once joined
JoinedLists == {"pool", "pool, gym", "quiet", "near subway"}

\* C15: the text has the eight lines of the template, in the template's
\* order, whatever is absent; an absent (or empty) property type or
\* location and an empty list render as "Any", a present one as itself, and
\* a boolean as "Yes" when set and "No" when not.
C15_EightLinesAnyYesNo ==
    pc = "rendered" =>
        LET p == Val(buyer_prefs)
            q == query_text
        IN  /\ Len(q) = 8
            /\ q[1] = IF p.property_type \in {None, Some("")} THEN "- Property type: Any"
                      ELSE "- Property type: condo"
            /\ q[2] \in {"- Amenities: " \o r : r \in JoinedLists \cup {"Any"}}
            /\ q[2] = "- Amenities: Any" <=> p.amenities = <<>>
            /\ q[3] = IF p.furnished THEN "- Furnished: Yes" ELSE "- Furnished: No"
            /\ q[4] = IF IsNone(p.location) THEN "- Location: Any" ELSE "- Location: Austin"
            /\ q[5] \in {"- Neighborhood features: " \o r : r \in JoinedLists \cup {"Any"}}
            /\ q[5] = "- Neighborhood features: Any" <=> p.neighborhood_features = <<>>
            /\ q[6] \in {"- Transportation preferences: " \o r : r \in JoinedLists \cup {"Any"}}
            /\ q[6] = "- Transportation preferences: Any" <=> p.transportation = <<>>
            /\ q[7] = IF p.parking_required THEN "- Parking required: Yes"
                      ELSE "- Parking required: No"
            /\ q[8] = IF p.pet_friendly_required THEN "- Pet friendly required: Yes"
                      ELSE "- Pet friendly required: No"

\* C15 witness: a record with no property type, no location and empty
\* lists, furnished and not pet friendly, rendered with all eight lines
C15_Witness ==
    /\ pc = "rendered"
    /\ IsNone(Val(buyer_prefs).property_type)
    /\ IsNone(Val(buyer_prefs).location)
    /\ Val(buyer_prefs).amenities = <<>>
    /\ Val(buyer_prefs).neighborhood_features = <<>>
    /\ Val(buyer_prefs).transportation = <<>>
    /\ Val(buyer_prefs).furnished
    /\ ~Val(buyer_prefs).pet_friendly_required
    /\ query_text = << "- Property type: Any", "- Amenities: Any", "- Furnished: Yes",
                       "- Location: Any", "- Neighborhood features: Any",
                       "- Transportation preferences: Any",
                       "- Parking required: No", "- Pet friendly required: No" >>

(***************************************************************************)
(* Properties of the Query Builder (under BuilderSpec)                     *)
(***************************************************************************)
\* the conditions of conds on field f with operator o, in order
Sel(conds, f, o) == SelectSeq(conds, LAMBDA c : c.field = f /\ c.op = o)

OnField(conds, f) == SelectSeq(conds, LAMBDA c : c.field = f)

\* every lower bound of a on f is matched by one of b that is no higher, and
\* every upper bound by one that is no lower (int-valued fields)
IntRangeWithin(a, b, f) ==
    /\ Len(Sel(a, f, "$gte")) = Len(Sel(b, f, "$gte"))
    /\ Len(Sel(a, f, "$lte")) = Len(Sel(b, f, "$lte"))
    /\ \A i \in 1 .. Len(Sel(a, f, "$gte")) :
          Sel(b, f, "$gte")[i].value <= Sel(a, f, "$gte")[i].value
    /\ \A i \in 1 .. Len(Sel(a, f, "$lte")) :
          Sel(b, f, "$lte")[i].value >= Sel(a, f, "$lte")[i].value

FloatRangeWithin(a, b, f) ==
    /\ Len(Sel(a, f, "$gte")) = Len(Sel(b, f, "$gte"))
    /\ Len(Sel(a, f, "$lte")) = Len(Sel(b, f, "$lte"))
    /\ \A i \in 1 .. Len(Sel(a, f, "$gte")) :
          FLeq(Sel(b, f, "$gte")[i].value, Sel(a, f, "$gte")[i].value)
    /\ \A i \in 1 .. Len(Sel(a, f, "$lte")) :
          FLeq(Sel(a, f, "$lte")[i].value, Sel(b, f, "$lte")[i].value)

Consecutive ==
    /\ ~IsNone(prev)
    /\ ~IsNone(cur)
    /\ Val(prev).prefs = Val(cur).prefs
    /\ Val(cur).level = Val(prev).level + 1

Halves(k) == IF k < 0 THEN FNeg(FromRatio(-k, 2)) ELSE FromRatio(k, 2)

FEq(a, b) == FCmp(a, b) = 0

\* how far the bathrooms bounds of an invocation lie below and above the value
ToleranceBelow(inv) ==
    FSub(Val(inv.prefs.bathrooms), Sel(inv.conditions, "bathrooms", "$gte")[1].value)

ToleranceAbove(inv) ==
    FSub(Sel(inv.conditions, "bathrooms", "$lte")[1].value, Val(inv.prefs.bathrooms))

\* C17: when bathrooms is present there are exactly two bathrooms
\* conditions, a lower bound then an upper bound, each 0.5 + L away from
\* the value: bathrooms_tolerance at level 0, and 1 more at each next level.
C17_BathroomsToleranceLinear ==
    (~IsNone(cur) /\ ~IsNone(Val(cur).prefs.bathrooms)) =>
        /\ Len(OnField(Val(cur).conditions, "bathrooms")) = 2
        /\ OnField(Val(cur).conditions, "bathrooms")[1].op = "$gte"
        /\ OnField(Val(cur).conditions, "bathrooms")[2].op = "$lte"
        /\ FEq(ToleranceBelow(Val(cur)), Halves(1 + 2 * Val(cur).level))
        /\ FEq(ToleranceAbove(Val(cur)), Halves(1 + 2 * Val(cur).level))
        /\ Val(cur).level = 0 => FEq(ToleranceAbove(Val(cur)), bathrooms_tolerance)
        /\ Consecutive =>
              /\ FEq(FSub(ToleranceAbove(Val(cur)), ToleranceAbove(Val(prev))), FromInt(1))
              /\ FEq(FSub(ToleranceBelow(Val(cur)), ToleranceBelow(Val(prev))), FromInt(1))

\* C17 witness: bathrooms = 1.5 at level 3 after level 2: the bounds are
\* -2 and 5
C17_Witness ==
    /\ Consecutive
    /\ Val(cur).level = 3
    /\ ~IsNone(Val(cur).prefs.bathrooms)
    /\ FEq(Val(Val(cur).prefs.bathrooms), Halves(3))
    /\ FEq(Sel(Val(cur).conditions, "bathrooms", "$gte")[1].value, FromInt(-2))
    /\ FEq(Sel(Val(cur).conditions, "bathrooms", "$lte")[1].value, FromInt(5))

\* C18: when area_min_sqft is present the one area lower bound at level L
\* is area_min_sqft - 200 L where that is positive and 0 otherwise: never
\* negative, and 0 at every level after one where it was 0; when
\* area_max_sqft is present the one upper bound is area_max_sqft + 200 L.
C18_AreaBoundsClampedAtZero ==
    ~IsNone(cur) =>
        LET p == Val(cur).prefs
            c == Val(cur).conditions
            L == Val(cur).level
        IN  /\ ~IsNone(p.area_min_sqft) =>
                  /\ Len(Sel(c, "area_sqft", "$gte")) = 1
                  /\ Sel(c, "area_sqft", "$gte")[1].value >= 0
                  /\ Sel(c, "area_sqft", "$gte")[1].value =
                        IF Val(p.area_min_sqft) > area_sqft_delta * L
                        THEN Val(p.area_min_sqft) - area_sqft_delta * L
                        ELSE 0
                  /\ (Consecutive /\ Sel(Val(prev).conditions, "area_sqft", "$gte")[1].value = 0)
                        => Sel(c, "area_sqft", "$gte")[1].value = 0
            /\ ~IsNone(p.area_max_sqft) =>
                  Sel(c, "area_sqft", "$lte") =
                      <<Cond("area_sqft", "$lte", Val(p.area_max_sqft) + area_sqft_delta * L)>>

\* C18 witness: area 500..850 at level 4 after level 3: the lower bound,
\* which would be -300, is 0 as at level 3, the upper bound is 1650
C18_Witness ==
    /\ Consecutive
    /\ Val(cur).level = 4
    /\ Val(cur).prefs.area_min_sqft = Some(500)
    /\ Val(cur).prefs.area_max_sqft = Some(850)
    /\ Sel(Val(prev).conditions, "area_sqft", "$gte")[1].value = 0
    /\ Sel(Val(cur).conditions, "area_sqft", "$gte")[1].value = 0
    /\ Sel(Val(cur).conditions, "area_sqft", "$lte")[1].value = 1650

\* a listing satisfies one condition: the value of the condition's field
\* is equal to, at least or at most the condition's value
Holds(listing, c) ==
    IF c.field = "bathrooms"
    THEN CASE c.op = "$gte" -> FLeq(c.value, listing.bathrooms)
           [] c.op = "$lte" -> FLeq(listing.bathrooms, c.value)
           [] OTHER -> FEq(listing.bathrooms, c.value)
    ELSE CASE c.op = "$gte" -> listing[c.field] >= c.value
           [] c.op = "$lte" -> listing[c.field] <= c.value
           [] OTHER -> listing[c.field] = c.value

\* where={"$and": conditions}
Satisfies(listing, conds) == \A i \in 1 .. Len(conds) : Holds(listing, conds[i])

\* the values the conditions put on field f, and a default
ValuesOn(conds, f, default) ==
    {default} \cup {conds[i].value : i \in {j \in 1 .. Len(conds) : conds[j].field = f}}

\* the listings that lie on the bounds of the conditions
ListingsOnBounds(conds) ==
    [bedrooms : ValuesOn(conds, "bedrooms", 0),
     bathrooms : ValuesOn(conds, "bathrooms", FromInt(0)),
     price : ValuesOn(conds, "price", 0),
     area_sqft : ValuesOn(conds, "area_sqft", 0),
     year_built : ValuesOn(conds, "year_built", 0)]

\* C19 (as claimed): for a record with non-negative numbers, a listing
\* that satisfies all conditions built at level L satisfies all conditions
\* built at level L + 1.
C19_AdmissibleListingsNeverShrink ==
    (Consecutive /\ IsPreferenceRecord(Val(cur).prefs)) =>
        \A listing \in ListingsOnBounds(Val(prev).conditions \o Val(cur).conditions) :
            Satisfies(listing, Val(prev).conditions)
                => Satisfies(listing, Val(cur).conditions)

\* C20 (as claimed): for a non-negative min_budget the price lower bound
\* is non-negative at every level.
C20_PriceLowerBoundNonNegative ==
    (/\ ~IsNone(cur)
     /\ ~IsNone(Val(cur).prefs.min_budget)
     /\ Val(Val(cur).prefs.min_budget) >= 0)
        => \A i \in 1 .. Len(Sel(Val(cur).conditions, "price", "$gte")) :
              Sel(Val(cur).conditions, "price", "$gte")[i].value >= 0

\* the year_built conditions the record asks for, with the year the
\* invocation read as the reference year
YearConditions(inv) ==
    (IF IsNone(inv.prefs.building_min_year) THEN <<>>
     ELSE <<Cond("year_built", "$gte", Val(inv.prefs.building_min_year))>>)
    \o
    (IF IsNone(inv.prefs.building_max_age) THEN <<>>
     ELSE <<Cond("year_built", "$gte", inv.year - Val(inv.prefs.building_max_age))>>)

C7_AbsentPreferenceNoCondition ==
    ~IsNone(cur) =>
        LET p == Val(cur).prefs
            c == Val(cur).conditions
        IN  /\ IsNone(p.bedrooms) => OnField(c, "bedrooms") = <<>>
            /\ IsNone(p.bathrooms) => OnField(c, "bathrooms") = <<>>
            /\ IsNone(p.min_budget) => Sel(c, "price", "$gte") = <<>>
            /\ IsNone(p.max_budget) => Sel(c, "price", "$lte") = <<>>
            /\ IsNone(p.area_min_sqft) => Sel(c, "area_sqft", "$gte") = <<>>
            /\ IsNone(p.area_max_sqft) => Sel(c, "area_sqft", "$lte") = <<>>
            /\ (IsNone(p.building_min_year) /\ IsNone(p.building_max_age))
                  => OnField(c, "year_built") = <<>>
            /\ \A i \in 1 .. Len(c) :
                  c[i].field \in {"bedrooms", "bathrooms", "price", "area_sqft", "year_built"}
            /\ p = NoPrefs => c = <<>>

\* C7 witness: the record with nothing set, built at a relaxed level after
\* the level before it, both empty
C7_Witness ==
    /\ Consecutive
    /\ Val(cur).prefs = NoPrefs
    /\ Val(cur).level >= 2
    /\ Val(cur).conditions = <<>>
    /\ Val(prev).conditions = <<>>

\* C8 (as claimed): two invocations on the same record at the same level
\* return the same conditions, whatever the wall clock shows.
C8_SameInputsSameConditions ==
    (/\ ~IsNone(prev)
     /\ ~IsNone(cur)
     /\ Val(prev).prefs = Val(cur).prefs
     /\ Val(prev).level = Val(cur).level)
        => Val(prev).conditions = Val(cur).conditions

\* trunc(n / d) for d > 0
TruncDiv(n, d) == IF n >= 0 THEN n \div d ELSE -((-n) \div d)

\* C9 (as claimed): the price bounds at level L are trunc(min_budget *
\* (1 - 0.15 L)) and trunc(max_budget * (1 + 0.15 L)) in exact arithmetic;
\* for {bedrooms 2, min_budget 300000, max_budget 340000} at level 1 they
\* are 255000 and 391000.
C9_BudgetBoundsAsComputedExactly ==
    ~IsNone(cur) =>
        LET p == Val(cur).prefs
            c == Val(cur).conditions
            L == Val(cur).level
        IN  /\ ~IsNone(p.min_budget) =>
                  Sel(c, "price", "$gte") =
                      <<Cond("price", "$gte", TruncDiv(Val(p.min_budget) * (100 - 15 * L), 100))>>
            /\ ~IsNone(p.max_budget) =>
                  Sel(c, "price", "$lte") =
                      <<Cond("price", "$lte", TruncDiv(Val(p.max_budget) * (100 + 15 * L), 100))>>
            /\ (p = ScenarioPrefs /\ L = 1) =>
                  /\ Sel(c, "price", "$gte")[1].value = 255000
                  /\ Sel(c, "price", "$lte")[1].value = 391000

\* C10: when bedrooms is present, be it 0, there is exactly one bedrooms
\* condition, bedrooms = value, and it is the same at every level.
C10_BedroomsExactNeverRelaxed ==
    (~IsNone(cur) /\ ~IsNone(Val(cur).prefs.bedrooms)) =>
        /\ OnField(Val(cur).conditions, "bedrooms")
              = <<Cond("bedrooms", "$eq", Val(Val(cur).prefs.bedrooms))>>
        /\ ~IsNone(prev) =>
              OnField(Val(prev).conditions, "bedrooms")
                  = OnField(Val(cur).conditions, "bedrooms")

\* C10 witness: a studio (bedrooms = 0) at a relaxed level, with its one
\* bedrooms = 0 condition, as at the level before
C10_Witness ==
    /\ Consecutive
    /\ Val(cur).prefs.bedrooms = Some(0)
    /\ Val(cur).level >= 3
    /\ Len(OnField(Val(cur).conditions, "bedrooms")) = 1
    /\ OnField(Val(cur).conditions, "bedrooms")[1].value = 0

=============================================================================
